---- MODULE Spec2Model ----
(***************************************************************************)
(* A model of src/hashids.py (hashids 0.8.3): the Hashids class, its       *)
(* constructor, encrypt and decrypt, and the helpers they are built on.    *)
(*                                                                         *)
(* A character is modelled by its code point (what ord() returns), a       *)
(* string by the sequence of its characters' codes, a tuple of values by   *)
(* a sequence.  Python indices are 0-based; the operators At, Slice and    *)
(* SliceFrom translate them.                                               *)
(***************************************************************************)
EXTENDS Integers, Sequences, FiniteSets, TLC

VARIABLES
    args,   \* the arguments the constructor is called with
    ctor,   \* "pending", "ok", or the exception __init__ raised
    obj,    \* the Hashids instance the caller holds (NoObj when there is none)
    obj0,   \* the instance as __init__ left it
    last,   \* the last encrypt/decrypt call: its argument and its outcome
    run,    \* the frame of an encrypt call executed loop iteration by loop iteration
    hu      \* a _hash/_unhash application: its inputs and results

vars == <<args, ctor, obj, obj0, last, run, hu>>

----------------------------------------------------------------------------
(* Strings *)

\* s[i] with a 0-based index
At(s, i) == s[i + 1]

Min(a, b) == IF a < b THEN a ELSE b

Max(a, b) == IF a > b THEN a ELSE b

\* s[a:b] for 0 <= a, 0 <= b (Python clamps the bounds to the length)
Slice(s, a, b) == SubSeq(s, a + 1, Min(b, Len(s)))

\* s[a:] for 0 <= a
SliceFrom(s, a) == SubSeq(s, a + 1, Len(s))

Chars(s) == {s[k] : k \in 1..Len(s)}

\* s.index(c): the 0-based position of the first occurrence of c
Index(s, c) == (CHOOSE k \in 1..Len(s) : s[k] = c /\ \A m \in 1..(k - 1) : s[m] # c) - 1

\* the string of the characters with codes a..b
Str(a, b) == [k \in 1..(b - a + 1) |-> a + k - 1]

----------------------------------------------------------------------------
(* Module-level helpers *)

\* RATIO_ALPHABET_SEPARATORS = 3.5, held in halves (3.5 = 7/2)
RATIO_ALPHABET_SEPARATORS_X2 == 7

RATIO_ALPHABET_GUARDS == 12

\* the least number of distinct characters __init__ accepts
MIN_ALPHABET_LENGTH == 16

\* 'cfhistuCFHISTU'
SEPARATOR_CANDIDATES == <<99, 102, 104, 105, 115, 116, 117, 67, 70, 72, 73, 83, 84, 85>>

\* int(ceil(dividend / divisor)) with the divisor given in halves
index_from_ratio(dividend, divisor_x2) == (2 * dividend + divisor_x2 - 1) \div divisor_x2

\* one iteration of _reorder's while loop on its locals (string, i, v, p)
reorder_body(st, salt) ==
    LET v       == st.v % Len(salt)
        integer == At(salt, v)
        p       == st.p + integer
        j       == (integer + v + p) % st.i
        temp    == At(st.string, j)
        trailer == IF j + 1 < Len(st.string) THEN SliceFrom(st.string, j + 1) ELSE <<>>
        s1      == Slice(st.string, 0, j) \o <<At(st.string, st.i)>> \o trailer
        s2      == Slice(s1, 0, st.i) \o <<temp>> \o SliceFrom(s1, st.i + 1)
    IN  [string |-> s2, i |-> st.i - 1, v |-> v + 1, p |-> p]

\* _reorder's locals as the loop is entered
reorder_init(string) == [string |-> string, i |-> Len(string) - 1, v |-> 0, p |-> 0]

RECURSIVE reorder_loop(_, _)
reorder_loop(st, salt) ==
    IF st.i > 0 THEN reorder_loop(reorder_body(st, salt), salt) ELSE st.string

reorder(string, salt) ==
    IF Len(salt) = 0 THEN string ELSE reorder_loop(reorder_init(string), salt)

\* _hash appending each digit instead of prepending it
hash_body_appends(st, alphabet) ==
    [number |-> st.number \div Len(alphabet),
     hashed |-> st.hashed \o <<At(alphabet, st.number % Len(alphabet))>>]

\* one iteration of _hash's loop on its locals (number, hashed)
hash_body(st, alphabet) ==
    [number |-> st.number \div Len(alphabet),
     hashed |-> <<At(alphabet, st.number % Len(alphabet))>> \o st.hashed]

RECURSIVE hash_loop(_, _)
hash_loop(st, alphabet) ==
    LET nxt == hash_body(st, alphabet)
    IN  IF nxt.number = 0 THEN nxt.hashed ELSE hash_loop(nxt, alphabet)

hash(number, alphabet) == hash_loop([number |-> number, hashed |-> <<>>], alphabet)

RECURSIVE Pow(_, _)
Pow(b, e) == IF e = 0 THEN 1 ELSE b * Pow(b, e - 1)

RECURSIVE unhash_loop(_, _, _, _)
\* the for loop of _unhash from position i on; "ValueError" when index() finds nothing
unhash_loop(hashed, alphabet, i, number) ==
    IF i >= Len(hashed) THEN [raised |-> "none", ret |-> number]
    ELSE IF At(hashed, i) \notin Chars(alphabet) THEN [raised |-> "ValueError", ret |-> 0]
    ELSE unhash_loop(hashed, alphabet, i + 1,
             number + Index(alphabet, At(hashed, i)) * Pow(Len(alphabet), Len(hashed) - i - 1))

unhash(hashed, alphabet) == unhash_loop(hashed, alphabet, 0, 0)

----------------------------------------------------------------------------
(* Argument values.  A value passed to encrypt or decrypt is a record      *)
(* [t, v]: t is its Python type; v is the integer itself (t = "int"), the  *)
(* float counted in halves (t = "float": v = 3 is 1.5, v = 2 is 1.0), the  *)
(* code of the only character of a one-character string (t = "str"), and   *)
(* 0 for None (t = "none").                                                *)

Int_(n) == [t |-> "int", v |-> n]

Float_(halves) == [t |-> "float", v |-> halves]

Str_(c) == [t |-> "str", v |-> c]

None_ == [t |-> "none", v |-> 0]

IsDigit(c) == c \in 48..57

\* the outcome of int(number): its value, or the exception it raises
int_of(number) ==
    CASE number.t = "int"   -> [raised |-> "none", ret |-> number.v]
      [] number.t = "float" -> [raised |-> "none",
                                ret |-> IF number.v >= 0 THEN number.v \div 2
                                        ELSE -((-number.v) \div 2)]
      [] number.t = "str"   -> IF IsDigit(number.v)
                               THEN [raised |-> "none", ret |-> number.v - 48]
                               ELSE [raised |-> "ValueError", ret |-> 0]
      [] OTHER              -> [raised |-> "TypeError", ret |-> 0]

\* number == int(number) and number >= 0, for an int() that returned n
eq_int_and_nonneg(number, n) ==
    CASE number.t = "int"   -> number.v = n /\ number.v >= 0
      [] number.t = "float" -> number.v = 2 * n /\ number.v >= 0
      [] OTHER              -> FALSE

\* _is_uint: only ValueError is caught
is_uint(number) ==
    LET n == int_of(number)
    IN  CASE n.raised = "none"       -> [raised |-> "none", ret |-> eq_int_and_nonneg(number, n.ret)]
          [] n.raised = "ValueError" -> [raised |-> "none", ret |-> FALSE]
          [] OTHER                   -> [raised |-> n.raised, ret |-> FALSE]

RECURSIVE all_is_uint(_, _)
\* all(_is_uint(x) for x in values) from position i on: all() stops at the
\* first false element, and an exception ends it
all_is_uint(values, i) ==
    IF i >= Len(values) THEN [raised |-> "none", ret |-> TRUE]
    ELSE LET r == is_uint(At(values, i))
         IN  IF r.raised # "none" \/ ~r.ret THEN r ELSE all_is_uint(values, i + 1)

----------------------------------------------------------------------------
(* Hashids.__init__ *)

NoObj == [min_length |-> -1, salt |-> <<>>, alphabet |-> <<>>, guards |-> <<>>,
          separators |-> <<>>]

RECURSIVE unique_characters(_, _, _)
\* the deduplication without "and x not in separators"
unique_characters(alphabet, separators, i) ==
    IF i >= Len(alphabet) THEN <<>>
    ELSE (IF Index(alphabet, At(alphabet, i)) = i THEN <<At(alphabet, i)>> ELSE <<>>)
         \o unique_characters(alphabet, separators, i + 1)

RECURSIVE unique_non_separators(_, _, _)
\* ''.join(x for i, x in enumerate(alphabet)
\*         if alphabet.index(x) == i and x not in separators), from position i on
unique_non_separators(alphabet, separators, i) ==
    IF i >= Len(alphabet) THEN <<>>
    ELSE (IF Index(alphabet, At(alphabet, i)) = i /\ At(alphabet, i) \notin Chars(separators)
          THEN <<At(alphabet, i)>> ELSE <<>>)
         \o unique_non_separators(alphabet, separators, i + 1)

\* lines 119-121: the separators and the alphabet before the length check
init_split(alphabet) ==
    LET separators == SelectSeq(SEPARATOR_CANDIDATES, LAMBDA x : x \in Chars(alphabet))
    IN  [separators |-> separators,
         alphabet   |-> unique_non_separators(alphabet, separators, 0)]

\* the length check without the separators taken out of the alphabet
init_too_short_alphabet_only(len_alphabet, len_separators) ==
    len_alphabet < MIN_ALPHABET_LENGTH

\* line 124: the condition under which __init__ raises ValueError
init_too_short(len_alphabet, len_separators) ==
    len_alphabet + len_separators < MIN_ALPHABET_LENGTH

\* lines 128-151: the three strings of a constructed instance
init_partition(salt, alphabet0, separators0) ==
    LET len_separators == Len(separators0)
        separators1    == reorder(separators0, salt)
        min_sep0       == index_from_ratio(Len(alphabet0), RATIO_ALPHABET_SEPARATORS_X2)
        grow           == separators1 = <<>> \/ len_separators < min_sep0
        min_separators == IF grow /\ min_sep0 = 1 THEN 2 ELSE min_sep0
        move           == grow /\ min_separators > len_separators
        split_at       == min_separators - len_separators
        separators2    == IF move THEN separators1 \o Slice(alphabet0, 0, split_at)
                          ELSE separators1
        alphabet1      == IF move THEN SliceFrom(alphabet0, split_at) ELSE alphabet0
        len_alphabet   == IF move THEN Len(alphabet1) ELSE Len(alphabet0)
        alphabet2      == reorder(alphabet1, salt)
        num_guards     == index_from_ratio(len_alphabet, 2 * RATIO_ALPHABET_GUARDS)
    IN  IF len_alphabet < 3
        THEN [alphabet   |-> alphabet2,
              guards     |-> Slice(separators2, 0, num_guards),
              separators |-> SliceFrom(separators2, num_guards)]
        ELSE [alphabet   |-> SliceFrom(alphabet2, num_guards),
              guards     |-> Slice(alphabet2, 0, num_guards),
              separators |-> separators2]

\* Hashids(salt, min_length, alphabet): the exception raised, and the instance
init(salt, min_length, alphabet) ==
    LET sp == init_split(alphabet)
    IN  IF init_too_short(Len(sp.alphabet), Len(sp.separators))
        THEN [raised |-> "ValueError", self |-> NoObj]
        ELSE LET pt == init_partition(salt, sp.alphabet, sp.separators)
             IN  [raised |-> "none",
                  self   |-> [min_length |-> Max(min_length, 0), salt |-> salt,
                              alphabet |-> pt.alphabet, guards |-> pt.guards,
                              separators |-> pt.separators]]

----------------------------------------------------------------------------
(* Hashids.encrypt and Hashids._encode *)

RECURSIVE values_hash_from(_, _)
\* sum(x % (i + 100) for i, x in enumerate(values)), from position i on
values_hash_from(values, i) ==
    IF i >= Len(values) THEN 0
    ELSE (At(values, i) % (i + 100)) + values_hash_from(values, i + 1)

\* the salt of the per-value shuffle (line 183)
alphabet_salt(self, fr) ==
    Slice(<<fr.lottery>> \o self.salt \o fr.alphabet, 0, Len(self.alphabet))

\* lines 186-190: what the for loop does with the hash of values[i]
for_tail(self, fr, alphabet, lst) ==
    LET value == At(fr.values, fr.i)
        enc   == fr.encoded \o lst
        sep   == At(self.separators, (value % (At(lst, 0) + fr.i)) % Len(self.separators))
    IN  [fr EXCEPT !.alphabet = alphabet,
                   !.encoded  = IF fr.i < Len(fr.values) - 1 THEN enc \o <<sep>> ELSE enc,
                   !.i        = fr.i + 1]

\* one iteration of the for loop (lines 182-190)
for_body(self, fr) ==
    LET alphabet == reorder(fr.alphabet, alphabet_salt(self, fr))
    IN  for_tail(self, fr, alphabet, hash(At(fr.values, fr.i), alphabet))

RECURSIVE for_loop(_, _)
for_loop(self, fr) ==
    IF fr.i < Len(fr.values) THEN for_loop(self, for_body(self, fr)) ELSE fr

\* lines 192-200: the guards put around a hash shorter than min_length
add_guards(self, fr) ==
    LET guards == self.guards
        g1     == At(guards, (fr.values_hash + At(fr.encoded, 0)) % Len(guards))
        e1     == <<g1>> \o fr.encoded
        g2     == At(guards, (fr.values_hash + At(e1, 2)) % Len(guards))
    IN  IF Len(fr.encoded) < self.min_length
        THEN [fr EXCEPT !.encoded = IF Len(e1) < self.min_length THEN e1 \o <<g2>> ELSE e1]
        ELSE fr

\* the padding loop without the trimming of lines 206-209
pad_tail_untrimmed(self, fr, alphabet) ==
    LET split_at == Len(self.alphabet) \div 2
    IN  [fr EXCEPT !.alphabet = alphabet,
                   !.encoded  = SliceFrom(alphabet, split_at) \o fr.encoded
                                \o Slice(alphabet, 0, split_at)]

\* the padding loop trimming to one character less than min_length
pad_tail_short(self, fr, alphabet) ==
    LET split_at   == Len(self.alphabet) \div 2
        enc        == SliceFrom(alphabet, split_at) \o fr.encoded \o Slice(alphabet, 0, split_at)
        excess     == Len(enc) - self.min_length
        from_index == excess \div 2
    IN  [fr EXCEPT !.alphabet = alphabet,
                   !.encoded  = IF excess > 0
                                THEN Slice(enc, from_index, from_index + self.min_length - 1)
                                ELSE enc]

\* lines 205-209: what the padding loop does with the reshuffled alphabet
pad_tail(self, fr, alphabet) ==
    LET split_at   == Len(self.alphabet) \div 2
        enc        == SliceFrom(alphabet, split_at) \o fr.encoded \o Slice(alphabet, 0, split_at)
        excess     == Len(enc) - self.min_length
        from_index == excess \div 2
    IN  [fr EXCEPT !.alphabet = alphabet,
                   !.encoded  = IF excess > 0
                                THEN Slice(enc, from_index, from_index + self.min_length)
                                ELSE enc]

\* one iteration of the padding loop (lines 204-209)
pad_body(self, fr) == pad_tail(self, fr, reorder(fr.alphabet, fr.alphabet))

RECURSIVE pad_loop(_, _)
pad_loop(self, fr) ==
    IF Len(fr.encoded) < self.min_length THEN pad_loop(self, pad_body(self, fr)) ELSE fr

\* _encode's locals as the for loop is entered (lines 170-181), for integers
encode_init(self, ints) ==
    LET values_hash == values_hash_from(ints, 0)
        lottery     == At(self.alphabet, values_hash % Len(self.alphabet))
    IN  [values |-> ints, i |-> 0, alphabet |-> self.alphabet, encoded |-> <<lottery>>,
         lottery |-> lottery, values_hash |-> values_hash]

\* _encode on integers: its locals as it returns
encode_ints(self, ints) == pad_loop(self, add_guards(self, for_loop(self, encode_init(self, ints))))

\* the numbers the values stand for (an integral float stands for its integer)
ints_of(values) == [k \in 1..Len(values) |-> int_of(values[k]).ret]

\* _encode storing the alphabet it shuffled back into the instance
encode_self_keeps_shuffle(self, fr) == [self EXCEPT !.alphabet = fr.alphabet]

\* the instance as _encode leaves it, fr being _encode's locals as it returns:
\* lines 167-211 assign to locals only, never to an attribute of self
encode_self(self, fr) == self

\* _encode(values): with a float among the values, values_hash is a float and
\* indexing the alphabet with it (line 179) raises TypeError
encode(self, values) ==
    IF \E k \in 1..Len(values) : values[k].t = "float"
    THEN [raised |-> "TypeError", ret |-> <<>>, self |-> self]
    ELSE LET fr == encode_ints(self, ints_of(values))
         IN  [raised |-> "none", ret |-> fr.encoded, self |-> encode_self(self, fr)]

\* encrypt(*values): the exception raised, the string returned, the instance afterwards
encrypt(self, values) ==
    LET ok == all_is_uint(values, 0)
    IN  IF values = <<>> THEN [raised |-> "none", ret |-> <<>>, self |-> self]
        ELSE IF ok.raised # "none" THEN [raised |-> ok.raised, ret |-> <<>>, self |-> self]
        ELSE IF ~ok.ret THEN [raised |-> "none", ret |-> <<>>, self |-> self]
        ELSE encode(self, values)

----------------------------------------------------------------------------
(* Hashids.decrypt and Hashids._decode.  The argument of decrypt is a      *)
(* record [t, s, n]: its Python type, its characters when it is a string,  *)
(* its value when it is an integer.                                        *)

StrArg(s) == [t |-> "str", s |-> s, n |-> 0]

IntArg(n) == [t |-> "int", s |-> <<>>, n |-> n]

NoneArg == [t |-> "none", s |-> <<>>, n |-> 0]

\* not hashid
is_falsy(hashid) ==
    CASE hashid.t = "str" -> hashid.s = <<>>
      [] hashid.t = "int" -> hashid.n = 0
      [] OTHER            -> TRUE

is_str(candidate) == candidate.t = "str"

RECURSIVE re_split(_, _)
\* pattern.split(string) for a pattern _re_class builds, given as the set of
\* the characters it matches
re_split(class, string) ==
    IF \A k \in 1..Len(string) : string[k] \notin class THEN <<string>>
    ELSE LET k == CHOOSE k \in 1..Len(string) :
                      string[k] \in class /\ \A m \in 1..(k - 1) : string[m] \notin class
         IN  <<SubSeq(string, 1, k - 1)>> \o re_split(class, SubSeq(string, k + 1, Len(string)))

\* the attributes __init__ sets on the instance (lines 116-117, 149-151)
has_attr(self, name) == name \in DOMAIN self

\* tuple(self._decode(hashid)).  self._guards_re and self._separators_re are read
\* (lines 266, 270) and nothing in the file assigns them: AttributeError.  Were they
\* set, the first non-empty part, at index 0, would hand the chain object that
\* _to_front returns to _reorder, whose len() raises TypeError (lines 276, 280, 78),
\* and with no part at index 0 lottery_char stays None and nothing is yielded.
decode(self, hashid) ==
    IF ~has_attr(self, "guards_re") THEN [raised |-> "AttributeError", ret |-> <<>>]
    ELSE LET parts == re_split(self.guards_re, hashid)
             inner == IF Len(parts) \in 2..3 THEN parts[2] ELSE parts[1]
         IN  IF ~has_attr(self, "separators_re")
             THEN [raised |-> "AttributeError", ret |-> <<>>]
             ELSE IF re_split(self.separators_re, inner)[1] # <<>>
                  THEN [raised |-> "TypeError", ret |-> <<>>]
                  ELSE [raised |-> "none", ret |-> <<>>]

\* decrypt without its try/except: what _decode raises reaches the caller
decrypt_without_except(self, hashid) ==
    IF is_falsy(hashid) \/ ~is_str(hashid) THEN [raised |-> "none", ret |-> <<>>]
    ELSE decode(self, hashid.s)

\* decrypt(hashid): the bare except turns every exception of _decode into ()
decrypt(self, hashid) ==
    IF is_falsy(hashid) \/ ~is_str(hashid) THEN [raised |-> "none", ret |-> <<>>]
    ELSE LET r == decode(self, hashid.s)
         IN  IF r.raised # "none" THEN [raised |-> "none", ret |-> <<>>] ELSE r

----------------------------------------------------------------------------
(* The calls a program makes: one constructor call, then encrypt and       *)
(* decrypt calls in any order.                                             *)

\* the longest tuple of values passed to encrypt
MaxValues == 2

\* the largest value passed to encrypt
MaxValue == 456

\* the largest min_length passed to the constructor
MaxMinLength == 7

\* 'arbitrary salt'
ARBITRARY_SALT == <<97, 114, 98, 105, 116, 114, 97, 114, 121, 32, 115, 97, 108, 116>>

Salts == {<<>>, <<97, 98>>, ARBITRARY_SALT}

MinLengths == -1..MaxMinLength

\* each character of s twice: 'aabbcc...'
Doubled(s) == [k \in 1..(2 * Len(s)) |-> s[(k + 1) \div 2]]

\* 'abcdefghijkl' (the docstrings' alphabet), 'a'..'p', 'a'..'z', alphabets with
\* all fourteen separator candidates and two or three other characters, and
\* alphabets with every character twice, of 15 and of 16 distinct characters
RawAlphabets ==
    {Str(97, 108), Str(97, 112), Str(97, 122),
     SEPARATOR_CANDIDATES \o <<97, 98>>, SEPARATOR_CANDIDATES \o <<97, 98, 120>>,
     Doubled(Str(97, 111)), Doubled(Str(97, 112))}

\* the unsigned integers encrypt is passed: one digit, and several digits
UInts == {0, MaxValue}

\* what encrypt is passed besides unsigned integers: -1, 1.5, 1.0, 'a', None
NonUInts == {Int_(-1), Float_(3), Float_(2), Str_(97), None_}

RECURSIVE Tuples(_, _)
\* the tuples of at most n elements of S
Tuples(S, n) ==
    IF n = 0 THEN {<<>>}
    ELSE LET shorter == Tuples(S, n - 1)
         IN  shorter \cup {Append(t, x) : t \in {u \in shorter : Len(u) = n - 1}, x \in S}

\* the tuples of unsigned integers encrypt is passed
UIntTuples == Tuples({Int_(n) : n \in UInts}, MaxValues) \ {<<>>}

\* the other tuples encrypt is passed: none, and one that is not an unsigned
\* integer alone, before and after an unsigned integer
OtherTuples ==
    {<<>>} \cup {<<x>> : x \in NonUInts}
           \cup {<<Int_(1), x>> : x \in NonUInts} \cup {<<x, Int_(1)>> : x \in NonUInts}
           \cup {<<Int_(-1), None_>>}

EncryptArgs == UIntTuples \cup OtherTuples

\* what decrypt is passed besides hashes: '', 5, 0, None, a character outside
\* every alphabet ('!'), and strings of alphabet, separator and guard characters
DecryptArgs ==
    {StrArg(<<>>), IntArg(5), IntArg(0), NoneArg, StrArg(<<33>>),
     StrArg(<<97>>), StrArg(<<99, 99>>), StrArg(<<97, 99, 98, 33>>)}

NoCall == [op |-> "none", values |-> <<>>, hashid |-> NoneArg, raised |-> "none",
           ret |-> <<>>, src |-> <<>>]

NoRun == [pc |-> "idle"]

NoHu == [phase |-> "idle"]

\* Hashids('arbitrary salt', 16, 'abcdefghijkl'), the call of the docstrings
\* of encrypt and decrypt (lines 158, 252)
DOC_MIN_LENGTH == 16

DocArgs == [salt |-> ARBITRARY_SALT, min_length |-> DOC_MIN_LENGTH, alphabet |-> Str(97, 108)]

Configs == [salt : Salts, min_length : MinLengths, alphabet : RawAlphabets] \cup {DocArgs}

Init ==
    /\ args \in Configs
    /\ ctor = "pending"
    /\ obj = NoObj
    /\ obj0 = NoObj
    /\ last = NoCall
    /\ run = NoRun
    /\ hu = NoHu

\* hashids = Hashids(salt, min_length, alphabet)
Construct ==
    /\ ctor = "pending"
    /\ LET r == init(args.salt, args.min_length, args.alphabet)
       IN  /\ ctor' = IF r.raised = "none" THEN "ok" ELSE r.raised
           /\ obj' = r.self
           /\ obj0' = r.self
    /\ UNCHANGED <<args, last, run, hu>>

\* hashids.encrypt(*values)
Encrypt(values) ==
    /\ ctor = "ok"
    /\ LET r == encrypt(obj, values)
       IN  /\ obj' = r.self
           /\ last' = [op |-> "encrypt", values |-> values, hashid |-> NoneArg,
                       raised |-> r.raised, ret |-> r.ret, src |-> <<>>]
    /\ UNCHANGED <<args, ctor, obj0, run, hu>>

\* hashids.decrypt(hashid); src is the tuple encrypt made hashid from, if it did
DecryptOf(hashid, src) ==
    /\ ctor = "ok"
    /\ LET r == decrypt(obj, hashid)
       IN  last' = [op |-> "decrypt", values |-> <<>>, hashid |-> hashid,
                    raised |-> r.raised, ret |-> r.ret, src |-> src]
    /\ UNCHANGED <<args, ctor, obj, obj0, run, hu>>

\* decrypt of anything
Decrypt == \E hashid \in DecryptArgs : DecryptOf(hashid, <<>>)

\* decrypt of the hash the preceding encrypt call returned
DecryptHash ==
    /\ last.op = "encrypt" /\ last.raised = "none" /\ last.ret # <<>>
    /\ DecryptOf(StrArg(last.ret), last.values)

Next ==
    \/ Construct
    \/ \E values \in EncryptArgs : Encrypt(values)
    \/ Decrypt
    \/ DecryptHash

Spec == Init /\ [][Next]_vars

----------------------------------------------------------------------------
(* One encrypt call of unsigned integers, executed one loop iteration at a *)
(* time: the for loop and the padding loop of _encode, and the loops of    *)
(* the _reorder and _hash calls they make.                                 *)

StepSalts == {ARBITRARY_SALT}

StepMinLengths == {0, DOC_MIN_LENGTH}

InitSteps ==
    /\ args \in [salt : StepSalts, min_length : StepMinLengths, alphabet : RawAlphabets]
    /\ ctor = "pending"
    /\ obj = NoObj
    /\ obj0 = NoObj
    /\ last = NoCall
    /\ run = NoRun
    /\ hu = NoHu

NoReorder == [string |-> <<>>, i |-> 0, v |-> 0, p |-> 0]

NoHash == [number |-> 0, hashed |-> <<>>]

\* _reorder entered: with an empty salt it returns the string at once
reorder_enter(string, salt) ==
    IF Len(salt) = 0 THEN [reorder_init(string) EXCEPT !.i = 0] ELSE reorder_init(string)

\* encrypt(*values) passes its checks and _encode reaches its for loop
StartEncode(values) ==
    /\ ctor = "ok" /\ run.pc = "idle"
    /\ run' = [pc |-> "for", fr |-> encode_init(obj, ints_of(values)),
               ro |-> NoReorder, rsalt |-> <<>>, hs |-> NoHash]
    /\ UNCHANGED <<args, ctor, obj, obj0, last, hu>>

\* the for loop takes the next value and calls _reorder (lines 182-184)
ForNext ==
    /\ run.pc = "for" /\ run.fr.i < Len(run.fr.values)
    /\ run' = [run EXCEPT !.pc = "for_reorder",
                          !.rsalt = alphabet_salt(obj, run.fr),
                          !.ro = reorder_enter(run.fr.alphabet, alphabet_salt(obj, run.fr))]
    /\ UNCHANGED <<args, ctor, obj, obj0, last, hu>>

\* the for loop is over: the guards are added (lines 192-200)
ForExit ==
    /\ run.pc = "for" /\ run.fr.i >= Len(run.fr.values)
    /\ run' = [run EXCEPT !.pc = "pad", !.fr = add_guards(obj, run.fr)]
    /\ UNCHANGED <<args, ctor, obj, obj0, last, hu>>

\* one iteration of _reorder's while loop (lines 79-91)
ReorderStep ==
    /\ run.pc \in {"for_reorder", "pad_reorder"} /\ run.ro.i > 0
    /\ run' = [run EXCEPT !.ro = reorder_body(run.ro, run.rsalt)]
    /\ UNCHANGED <<args, ctor, obj, obj0, last, hu>>

\* _reorder returns to the for loop, which calls _hash (lines 184-185)
ForReorderReturn ==
    /\ run.pc = "for_reorder" /\ run.ro.i <= 0
    /\ run' = [run EXCEPT !.pc = "hash",
                          !.fr = [run.fr EXCEPT !.alphabet = run.ro.string],
                          !.hs = [number |-> At(run.fr.values, run.fr.i), hashed |-> <<>>]]
    /\ UNCHANGED <<args, ctor, obj, obj0, last, hu>>

\* one iteration of _hash's loop that leaves number nonzero (lines 55-57)
HashStep ==
    /\ run.pc = "hash" /\ hash_body(run.hs, run.fr.alphabet).number # 0
    /\ run' = [run EXCEPT !.hs = hash_body(run.hs, run.fr.alphabet)]
    /\ UNCHANGED <<args, ctor, obj, obj0, last, hu>>

\* the iteration of _hash's loop that returns, and the rest of the for body
HashReturn ==
    /\ run.pc = "hash" /\ hash_body(run.hs, run.fr.alphabet).number = 0
    /\ run' = [run EXCEPT !.pc = "for",
                          !.hs = hash_body(run.hs, run.fr.alphabet),
                          !.fr = for_tail(obj, run.fr, run.fr.alphabet,
                                          hash_body(run.hs, run.fr.alphabet).hashed)]
    /\ UNCHANGED <<args, ctor, obj, obj0, last, hu>>

\* the padding loop goes on and calls _reorder (lines 203-204)
PadNext ==
    /\ run.pc = "pad" /\ Len(run.fr.encoded) < obj.min_length
    /\ run' = [run EXCEPT !.pc = "pad_reorder", !.rsalt = run.fr.alphabet,
                          !.ro = reorder_enter(run.fr.alphabet, run.fr.alphabet)]
    /\ UNCHANGED <<args, ctor, obj, obj0, last, hu>>

\* _reorder returns to the padding loop (lines 205-209)
PadReorderReturn ==
    /\ run.pc = "pad_reorder" /\ run.ro.i <= 0
    /\ run' = [run EXCEPT !.pc = "pad", !.fr = pad_tail(obj, run.fr, run.ro.string)]
    /\ UNCHANGED <<args, ctor, obj, obj0, last, hu>>

\* _encode returns encoded (line 211)
PadExit ==
    /\ run.pc = "pad" /\ Len(run.fr.encoded) >= obj.min_length
    /\ run' = [run EXCEPT !.pc = "done"]
    /\ UNCHANGED <<args, ctor, obj, obj0, last, hu>>

\* the steps of a call that has begun
EncodeSteps ==
    \/ ForNext
    \/ ForExit
    \/ ReorderStep
    \/ ForReorderReturn
    \/ HashStep
    \/ HashReturn
    \/ PadNext
    \/ PadReorderReturn
    \/ PadExit

NextSteps ==
    \/ Construct
    \/ \E values \in UIntTuples : StartEncode(values)
    \/ EncodeSteps

\* the interpreter runs a call that has begun until it returns
SpecSteps == InitSteps /\ [][NextSteps]_vars /\ WF_vars(EncodeSteps)

----------------------------------------------------------------------------
(* _hash and _unhash applied to a number and an alphabet                   *)

\* the largest number hashed
MaxNumber == 40

\* the most characters of an alphabet _hash is given
MaxHashAlphabet == 3

RECURSIVE Arrangements(_, _)
\* the strings of n distinct characters of S
Arrangements(S, n) ==
    IF n = 0 THEN {<<>>}
    ELSE LET shorter == Arrangements(S, n - 1)
         IN  UNION {{Append(t, x) : x \in S \ Chars(t)} : t \in shorter}

\* the alphabets of 2..MaxHashAlphabet distinct characters among the first
\* MaxHashAlphabet letters
HashAlphabets ==
    UNION {Arrangements(97..(96 + MaxHashAlphabet), n) : n \in 2..MaxHashAlphabet}

InitHash ==
    /\ args = DocArgs
    /\ ctor = "pending"
    /\ obj = NoObj
    /\ obj0 = NoObj
    /\ last = NoCall
    /\ run = NoRun
    /\ hu \in [phase : {"input"}, number : 0..MaxNumber, alphabet : HashAlphabets,
               hashed : {<<>>}, unhashed : {[raised |-> "none", ret |-> 0]}]

\* hashed = _hash(number, alphabet)
Hash ==
    /\ hu.phase = "input"
    /\ hu' = [hu EXCEPT !.phase = "hashed", !.hashed = hash(hu.number, hu.alphabet)]
    /\ UNCHANGED <<args, ctor, obj, obj0, last, run>>

\* _unhash(hashed, alphabet)
Unhash ==
    /\ hu.phase = "hashed"
    /\ hu' = [hu EXCEPT !.phase = "unhashed", !.unhashed = unhash(hu.hashed, hu.alphabet)]
    /\ UNCHANGED <<args, ctor, obj, obj0, last, run>>

NextHash == Hash \/ Unhash

SpecHash == InitHash /\ [][NextHash]_vars

----------------------------------------------------------------------------
(* Properties *)

IsUInt(x) == x.t = "int" /\ x.v >= 0

AllUInts(values) == values # <<>> /\ \A k \in 1..Len(values) : IsUInt(values[k])

\* C1: decrypt of the hash encrypt made from a non-empty tuple of unsigned
\* integers returns that tuple
RoundTrip ==
    (last.op = "decrypt" /\ AllUInts(last.src))
        => (last.raised = "none" /\ last.ret = ints_of(last.src))

\* a string decrypt cannot take for a hash: not a string, empty, shorter than a
\* lottery character and a digit, with a character outside the three strings
\* of the instance, or with a separator first
Malformed(self, hashid) ==
    \/ ~is_str(hashid)
    \/ Len(hashid.s) < 2
    \/ \E k \in 1..Len(hashid.s) :
           hashid.s[k] \notin Chars(self.alphabet) \cup Chars(self.separators) \cup Chars(self.guards)
    \/ hashid.s[1] \in Chars(self.separators)

\* C2: decrypt never raises; it returns the empty tuple for every malformed
\* argument and whenever _decode raises
DecryptNeverRaises ==
    last.op = "decrypt" =>
        /\ last.raised = "none"
        /\ Malformed(obj, last.hashid) => last.ret = <<>>
        /\ (is_str(last.hashid) /\ decode(obj, last.hashid.s).raised # "none") => last.ret = <<>>

\* C2 witness: decrypt of a string with a character outside the alphabet, in
\* which _decode raised
DecryptNeverRaisesWitness ==
    /\ last.op = "decrypt" /\ last.hashid = StrArg(<<97, 99, 98, 33>>)
    /\ decode(obj, last.hashid.s).raised # "none"
    /\ last.ret = <<>>

\* C3: encrypt of no value, or of a tuple with an element that is not an
\* unsigned integer, returns the empty string and does not raise
EncryptRejectsInvalid ==
    (last.op = "encrypt" /\ ~AllUInts(last.values))
        => (last.raised = "none" /\ last.ret = <<>>)

RECURSIVE NumDigits(_, _)
\* the number of digits of n in a base
NumDigits(n, base) == IF n < base THEN 1 ELSE 1 + NumDigits(n \div base, base)

RECURSIVE SumDigits(_, _)
SumDigits(ints, base) ==
    IF ints = <<>> THEN 0 ELSE NumDigits(Head(ints), base) + SumDigits(Tail(ints), base)

\* the length of the lottery character, the digits of every value and the
\* separators between them
NaturalLength(self, ints) == 1 + SumDigits(ints, Len(self.alphabet)) + (Len(ints) - 1)

\* C4: a hash is at least min_length long, and exactly min_length long when
\* the natural encoding with its two guards is shorter than min_length
MinimumLength ==
    (last.op = "encrypt" /\ AllUInts(last.values)) =>
        /\ last.raised = "none"
        /\ Len(last.ret) >= args.min_length
        /\ NaturalLength(obj, ints_of(last.values)) + 2 < args.min_length
               => Len(last.ret) = args.min_length

\* C4 witness: two values hashed under a min_length that the padding loop has
\* to reach
MinimumLengthWitness ==
    /\ last.op = "encrypt" /\ AllUInts(last.values) /\ Len(last.values) = 2
    /\ NaturalLength(obj, ints_of(last.values)) + 2 < args.min_length
    /\ Len(last.ret) = args.min_length

DOC_HASH == <<102, 104, 98, 108, 104, 107, 102, 106, 101, 106, 100, 100, 106, 98, 100, 108>>

\* C7: Hashids('arbitrary salt', 16, 'abcdefghijkl') is constructed, its
\* encrypt(1, 23, 456) is 'fhblhkfjejddjbdl' and decrypt of that is (1, 23, 456)
DocumentedExample ==
    (args = DocArgs /\ ctor # "pending") =>
        /\ ctor = "ok"
        /\ encrypt(obj, <<Int_(1), Int_(23), Int_(456)>>).ret = DOC_HASH
        /\ decrypt(obj, StrArg(DOC_HASH)).ret = <<1, 23, 456>>

Disjoint(s, t) == Chars(s) \cap Chars(t) = {}

LoopsProgress ==
    /\ (run.pc = "hash" /\ run'.pc = "hash") =>
           (run'.hs.number < run.hs.number /\ run'.hs.number > 0)
    /\ (run.pc \in {"for_reorder", "pad_reorder"} /\ run'.pc = run.pc) =>
           (run'.ro.i = run.ro.i - 1 /\ run'.ro.i >= 0)
    /\ (run.pc = "pad_reorder" /\ run'.pc = "pad") =>
           Len(run'.fr.encoded) = Min(Len(run.fr.encoded) + Len(obj.alphabet), obj.min_length)

\* C9: the alphabet of an instance has at least 2 characters, every loop
\* iteration of an encrypt call moves towards the loop's exit, and every
\* encrypt call of unsigned integers returns
EncodeTerminates ==
    /\ [](ctor = "ok" => Len(obj.alphabet) >= 2)
    /\ [][LoopsProgress]_vars
    /\ (run.pc # "idle") ~> (run.pc = "done")

\* C9 witness: a call of two values, the second of several digits, returned
\* after the padding loop brought the hash to min_length
EncodeTerminatesWitness ==
    /\ run.pc = "done" /\ Len(run.fr.values) = 2 /\ At(run.fr.values, 1) = MaxValue
    /\ NaturalLength(obj, run.fr.values) + 2 < obj.min_length
    /\ Len(run.fr.encoded) = obj.min_length

\* the call executed by steps returns what _encode computes
StepsAgree ==
    run.pc = "done" => run.fr.encoded = encode_ints(obj, run.fr.values).encoded

RECURSIVE DigitsValue(_, _, _)
\* the number the digits stand for, most significant first (Horner's rule)
DigitsValue(digits, alphabet, acc) ==
    IF digits = <<>> THEN acc
    ELSE DigitsValue(Tail(digits), alphabet, acc * Len(alphabet) + Index(alphabet, Head(digits)))

\* C10: _hash gives the base-len(alphabet) digits of the number, most
\* significant first and without a leading zero digit, and _unhash of them
\* is the number
HashUnhashInverse ==
    hu.phase \in {"hashed", "unhashed"} =>
        /\ Chars(hu.hashed) \subseteq Chars(hu.alphabet)
        /\ DigitsValue(hu.hashed, hu.alphabet, 0) = hu.number
        /\ Len(hu.hashed) = 1 \/ Index(hu.alphabet, hu.hashed[1]) # 0
        /\ hu.phase = "unhashed" => hu.unhashed = [raised |-> "none", ret |-> hu.number]

\* C10 witness: a number of three digits or more hashed and unhashed
HashUnhashWitness ==
    hu.phase = "unhashed" /\ Len(hu.hashed) >= 3 /\ hu.unhashed.ret = hu.number

====
